---- MODULE Spec2Model ----
(***************************************************************************)
(* A model of the Fish-Predator boid engine: Vector2D, Boid, Grid and      *)
(* Simulation (src/src/engine).                                            *)
(*                                                                         *)
(* Numbers.  A C++ float is modelled as a fixed-point integer holding the  *)
(* value times Scale, every arithmetic operation rounding to the nearest   *)
(* representable value as IEEE arithmetic does.  A squared magnitude       *)
(* (magSq) is kept as the exact integer product, in units of 1/Scale^2.    *)
(* An angle is a fixed-point number of radians.  int values are integers.  *)
(***************************************************************************)
EXTENDS Integers, Sequences, FiniteSets, TLC

VARIABLES sim, runB, call

vars == <<sim, runB, call>>

\* Resolution of the fixed-point model of float: 1/Scale.
Scale == 100

-----------------------------------------------------------------------------
(* Arithmetic of the fixed-point floats *)

Abs(a) == IF a < 0 THEN -a ELSE a

Sgn(a) == IF a < 0 THEN -1 ELSE 1

\* a / b of real numbers rounded to the nearest integer (b > 0)
RDiv(a, b) == Sgn(a) * ((2 * Abs(a) + b) \div (2 * b))

\* static_cast<int>(a / b): truncation toward zero (b > 0)
TruncDiv(a, b) == Sgn(a) * (Abs(a) \div b)

\* std::ceil(a / b) as an int (a >= 0, b > 0)
CeilDiv(a, b) == (a + b - 1) \div b

\* float * float
fmul(a, b) == RDiv(a * b, Scale)

\* float / float (b > 0)
fdiv(a, b) == RDiv(a * Scale, b)

RECURSIVE SqrtIter(_, _, _)
SqrtIter(n, lo, hi) ==
    IF lo >= hi THEN lo
    ELSE LET mid == (lo + hi + 1) \div 2
         IN  IF mid * mid <= n THEN SqrtIter(n, mid, hi)
             ELSE SqrtIter(n, lo, mid - 1)

\* std::sqrt, rounded to nearest
Sqrt(n) ==
    LET r == SqrtIter(n, 0, IF n < 46340 THEN n ELSE 46340)
    IN  IF n - r * r > r THEN r + 1 ELSE r

\* 6.28318530718f
TwoPi == 628

\* cos at the 32 directions k * TwoPi / 32, times Scale
CosTable ==
    << 100, 98, 92, 83, 71, 56, 38, 20, 0, -20, -38, -56, -71, -83, -92, -98,
       -100, -98, -92, -83, -71, -56, -38, -20, 0, 20, 38, 56, 71, 83, 92, 98 >>

Direction(angle) == (((angle % TwoPi) * 32 + (TwoPi \div 2)) \div TwoPi) % 32

\* std::cos
cos(angle) == CosTable[Direction(angle) + 1]

\* std::sin
sin(angle) == CosTable[((Direction(angle) + 24) % 32) + 1]

\* RAND_MAX of <cstdlib>
RAND_MAX == 32767

\* rand(): a deterministic generator over one hidden global state.  The
\* result carries the value drawn and the generator's next state.
rand(seed) ==
    LET s == (seed * 75 + 74) % 65537
    IN  [value |-> s % (RAND_MAX + 1), seed |-> s]

\* (float)rand() / RAND_MAX
randFloat(v) == RDiv(v * Scale, RAND_MAX)

-----------------------------------------------------------------------------
(* Vector2D: a pair <<x, y>> of floats *)

Vector2D(x, y) == <<x, y>>

VAdd(a, b) == <<a[1] + b[1], a[2] + b[2]>>

VSub(a, b) == <<a[1] - b[1], a[2] - b[2]>>

VMul(v, n) == <<fmul(v[1], n), fmul(v[2], n)>>

VDiv(v, n) == <<fdiv(v[1], n), fdiv(v[2], n)>>

magSq(v) == v[1] * v[1] + v[2] * v[2]

mag(v) == Sqrt(magSq(v))

normalize(v) ==
    LET m == mag(v)
    IN  IF m > 0 THEN <<fdiv(v[1], m), fdiv(v[2], m)>> ELSE v

limit(v, max) ==
    IF magSq(v) > max * max
    THEN LET n == normalize(v) IN <<fmul(n[1], max), fmul(n[2], max)>>
    ELSE v

-----------------------------------------------------------------------------
(* Boid *)

\* float maxSpeed = 2.5f
MaxSpeed == 250

\* float maxForce = 0.15f
MaxForce == 15

\* float worldWidth = 1200.0f
WorldWidth == 120000

\* float worldHeight = 800.0f
WorldHeight == 80000

\* Boid::Boid(x, y): two draws from rand(); the boid and the generator's
\* state afterwards.
Boid(x, y, seed) ==
    LET r1    == rand(seed)
        r2    == rand(r1.seed)
        angle == fmul(randFloat(r1.value), TwoPi)
        speed == Scale + fmul(randFloat(r2.value), 150)
    IN  [b |-> [pos |-> Vector2D(x, y),
                vel |-> Vector2D(fmul(cos(angle), speed), fmul(sin(angle), speed)),
                accel |-> Vector2D(0, 0),
                maxSpeed |-> MaxSpeed,
                maxForce |-> MaxForce,
                worldWidth |-> WorldWidth,
                worldHeight |-> WorldHeight,
                wanderAngle |-> angle],
         seed |-> r2.seed]

wrappedDiff(b, a1, a2) ==
    LET dx == a1[1] - a2[1]
        dy == a1[2] - a2[2]
        hw == fdiv(b.worldWidth, 2 * Scale)
        hh == fdiv(b.worldHeight, 2 * Scale)
    IN  Vector2D(IF dx > hw THEN dx - b.worldWidth
                 ELSE IF dx < -hw THEN dx + b.worldWidth ELSE dx,
                 IF dy > hh THEN dy - b.worldHeight
                 ELSE IF dy < -hh THEN dy + b.worldHeight ELSE dy)

applyForce(b, force) == [b EXCEPT !.accel = VAdd(@, force)]

seek(b, target) ==
    LET desired == VMul(normalize(VSub(target, b.pos)), b.maxSpeed)
    IN  limit(VSub(desired, b.vel), b.maxForce)

flee(b, target) ==
    LET diff == VSub(b.pos, target)
    IN  IF magSq(diff) < 10000 * Scale * Scale
        THEN limit(VSub(VMul(normalize(diff), b.maxSpeed), b.vel),
                   fmul(b.maxForce, 2 * Scale))
        ELSE Vector2D(0, 0)

\* Boid::wander(): the force, the new wanderAngle and the generator's state
wander(b, seed) ==
    LET r            == rand(seed)
        angleChange  == fmul(randFloat(r.value) - (Scale \div 2), Scale \div 2)
        angle        == b.wanderAngle + angleChange
        circleCenter == VMul(normalize(b.vel), 4 * Scale)
        displacement == Vector2D(fmul(2 * Scale, cos(angle)),
                                 fmul(2 * Scale, sin(angle)))
    IN  [force |-> limit(VAdd(circleCenter, displacement), b.maxForce),
         wanderAngle |-> angle,
         seed |-> r.seed]

\* Boid::flock, one turn of the loop over the neighbors (lines 65-82): what
\* the turn for other adds to the sums.  this is the boid's own index, other
\* an index into boids (a Boid* of the code).
neighborTerm(b, this, other, boids) ==
    LET diff  == wrappedDiff(b, b.pos, boids[other].pos)
        dSq   == magSq(diff)
        near  == other # this /\ dSq < 2500 * Scale * Scale
        close == near /\ dSq < 625 * Scale * Scale /\ dSq > (Scale * Scale) \div 100
    IN  [sepSteer   |-> IF close THEN VDiv(normalize(diff), Sqrt(dSq)) ELSE Vector2D(0, 0),
         sepCount   |-> IF close THEN 1 ELSE 0,
         alignSum   |-> IF near THEN boids[other].vel ELSE Vector2D(0, 0),
         cohSum     |-> IF near THEN VSub(b.pos, diff) ELSE Vector2D(0, 0),
         flockCount |-> IF near THEN 1 ELSE 0]

\* Boid::flock, the loop over the neighbors (lines 64-83): the sums over
\* neighbors[lo..hi].  The sums of the model are exact, so the turns are
\* added pairwise, by halves, instead of one after the other.
RECURSIVE flockLoop(_, _, _, _, _, _)
flockLoop(b, this, neighbors, boids, lo, hi) ==
    IF lo > hi
    THEN [sepSteer |-> Vector2D(0, 0), sepCount |-> 0, alignSum |-> Vector2D(0, 0),
          cohSum |-> Vector2D(0, 0), flockCount |-> 0]
    ELSE IF lo = hi THEN neighborTerm(b, this, neighbors[lo], boids)
    ELSE LET l == flockLoop(b, this, neighbors, boids, lo, (lo + hi) \div 2)
             r == flockLoop(b, this, neighbors, boids, (lo + hi) \div 2 + 1, hi)
         IN  [sepSteer   |-> VAdd(l.sepSteer, r.sepSteer),
              sepCount   |-> l.sepCount + r.sepCount,
              alignSum   |-> VAdd(l.alignSum, r.alignSum),
              cohSum     |-> VAdd(l.cohSum, r.cohSum),
              flockCount |-> l.flockCount + r.flockCount]

\* Boid::flock up to the call of wander (lines 57-101): separation, alignment
\* and cohesion applied to accel
flockNeighbors(b, this, neighbors, boids) ==
    LET acc == flockLoop(b, this, neighbors, boids, 1, Len(neighbors))
        sep == LET steer == normalize(VDiv(acc.sepSteer, acc.sepCount * Scale))
               IN  limit(VSub(VMul(steer, b.maxSpeed), b.vel), b.maxForce)
        b1  == IF acc.sepCount > 0
               THEN applyForce(b, VMul(sep, (3 * Scale) \div 2))
               ELSE b
        avgVel     == VDiv(acc.alignSum, acc.flockCount * Scale)
        alignSteer == limit(VSub(avgVel, b1.vel), b1.maxForce)
        b2  == applyForce(b1, VMul(alignSteer, (3 * Scale) \div 10))
        avgPos     == VDiv(acc.cohSum, acc.flockCount * Scale)
        b3  == applyForce(b2, VMul(seek(b2, avgPos), Scale \div 2))
    IN  IF acc.flockCount > 0 THEN b3 ELSE b1

\* Boid::flock from the call of wander on (lines 103-104): the boid and the
\* generator's state afterwards
flockWanderFlee(b, predatorPos, seed) ==
    LET w  == wander(b, seed)
        b1 == applyForce([b EXCEPT !.wanderAngle = w.wanderAngle],
                         VMul(w.force, (8 * Scale) \div 10))
    IN  [b |-> applyForce(b1, VMul(flee(b1, predatorPos), 3 * Scale)),
         seed |-> w.seed]

\* update without its vel.limit(maxSpeed)
updateNoLimit(b) ==
    [b EXCEPT !.vel = VAdd(b.vel, b.accel), !.pos = VAdd(b.pos, VAdd(b.vel, b.accel)),
              !.accel = Vector2D(0, 0)]

update(b) ==
    LET vel == limit(VAdd(b.vel, b.accel), b.maxSpeed)
    IN  [b EXCEPT !.vel = vel, !.pos = VAdd(b.pos, vel), !.accel = Vector2D(0, 0)]

-----------------------------------------------------------------------------
(* Grid: cells[<<x, y>>] is the bucket of column x and row y, a sequence of  *)
(* indices into boids.                                                       *)

\* the grid's cell size at Simulation::step: 50.0f
CellSize == 5000

Grid(w, h, cSize) ==
    LET cols == CeilDiv(w, cSize)
        rows == CeilDiv(h, cSize)
    IN  [width |-> w, height |-> h, cellSize |-> cSize, cols |-> cols, rows |-> rows,
         cells |-> [c \in (0 .. cols - 1) \X (0 .. rows - 1) |-> << >>]]

\* the clamp of Grid::add
clamp(ix, dim) == IF ix < 0 THEN 0 ELSE IF ix >= dim THEN dim - 1 ELSE ix

\* Grid::add(b), b the boid at index ptr
add(g, pos, ptr) ==
    LET ix == clamp(TruncDiv(pos[1], g.cellSize), g.cols)
        iy == clamp(TruncDiv(pos[2], g.cellSize), g.rows)
    IN  [g EXCEPT !.cells[<<ix, iy>>] = Append(@, ptr)]

\* the bucket Grid::query visits for the offset (dx, dy)
bucket(g, ix, iy, dx, dy) ==
    g.cells[<<(ix + dx + g.cols) % g.cols, (iy + dy + g.rows) % g.rows>>]

\* the agents Grid::query meets, in the order of its loops
visited(g, ix, iy) ==
    bucket(g, ix, iy, -1, -1) \o bucket(g, ix, iy, -1, 0) \o bucket(g, ix, iy, -1, 1)
      \o bucket(g, ix, iy, 0, -1) \o bucket(g, ix, iy, 0, 0) \o bucket(g, ix, iy, 0, 1)
      \o bucket(g, ix, iy, 1, -1) \o bucket(g, ix, iy, 1, 0) \o bucket(g, ix, iy, 1, 1)

\* Grid::query: the count returned and the buffer as the call leaves it
query(g, px, py, buffer, maxCount) ==
    LET ix    == TruncDiv(px, g.cellSize)
        iy    == TruncDiv(py, g.cellSize)
        seen  == visited(g, ix, iy)
        count == IF Len(seen) < maxCount THEN Len(seen) ELSE maxCount
    IN  [count  |-> count,
         buffer |-> [k \in 1 .. Len(buffer) |-> IF k <= count THEN seen[k] ELSE buffer[k]]]

-----------------------------------------------------------------------------
(* Simulation.  A simulation is a record: the fields of the class (boids,   *)
(* width, height), the state rand() hides (seed), and, while step runs, its *)
(* locals and the position of every thread of its parallel loop:            *)
(*   pc        "idle" between calls, "add" in the loop of grid.add,         *)
(*             "parallel" inside the omp parallel for                       *)
(*   grid      the local Grid of step                                       *)
(*   addIdx    the boid the loop of grid.add reaches next                   *)
(*   th[t]     thread t of the team: its place in the loop body (pc), its   *)
(*             loop variable (i), the last index of its chunk (last) and    *)
(*             the local vector neighbors                                   *)
(*   tick      the calls of step that have returned                         *)
(*   updated, wrapped, limited  per boid and per call of step: how often    *)
(*             update ran, how often the boundary wrap ran, and whether     *)
(*             update's limit cut the velocity (history, read by no step)   *)
(***************************************************************************)

\* the calls of step a run makes
MaxTicks == 2

\* the largest population constructed
MaxBoids == 2

\* Boid* neighborBuffer[64]
NeighborBufferSize == 64

NoGrid == [width |-> 0, height |-> 0, cellSize |-> 0, cols |-> 0, rows |-> 0,
           cells |-> << >>]

IdleThread == [pc |-> "idle", i |-> 0, last |-> 0, neighbors |-> << >>]

\* the loop of Simulation::Simulation: boids after the first k constructions.
\* The two rand() arguments of emplace_back are evaluated in an order the
\* compiler chooses: xFirst says which.
RECURSIVE emplaceAll(_, _, _, _, _, _)
emplaceAll(k, w, h, seed, xFirst, boids) ==
    IF k = 0 THEN [boids |-> boids, seed |-> seed]
    ELSE LET r1 == rand(seed)
             r2 == rand(r1.seed)
             x  == (IF xFirst THEN r1.value ELSE r2.value) % TruncDiv(w, Scale)
             y  == (IF xFirst THEN r2.value ELSE r1.value) % TruncDiv(h, Scale)
             nb == Boid(x * Scale, y * Scale, r2.seed)
         IN  emplaceAll(k - 1, w, h, nb.seed, xFirst, Append(boids, nb.b))

\* Simulation::Simulation(count, w, h), run by nthreads OpenMP threads
Simulation(count, w, h, seed, xFirst, nthreads) ==
    LET made == emplaceAll(count, w, h, seed, xFirst, << >>)
    IN  [boids |-> made.boids, width |-> w, height |-> h, seed |-> made.seed,
         nthreads |-> nthreads, pc |-> "idle", grid |-> NoGrid, addIdx |-> 0,
         predatorPos |-> Vector2D(0, 0),
         th |-> [t \in 1 .. nthreads |-> IdleThread],
         tick |-> 0,
         updated |-> [i \in 1 .. count |-> 0],
         wrapped |-> [i \in 1 .. count |-> 0],
         limited |-> [i \in 1 .. count |-> FALSE]]

\* schedule(static): the first index of thread t's contiguous chunk of 1..n
chunkFirst(n, nthreads, t) ==
    LET q == n \div nthreads
        r == n % nthreads
    IN  (t - 1) * q + (IF t - 1 < r THEN t - 1 ELSE r) + 1

\* schedule(static): the last index of thread t's chunk
chunkLast(n, nthreads, t) == chunkFirst(n, nthreads, t + 1) - 1

\* the thread whose chunk holds index i
owner(s, i) ==
    CHOOSE t \in 1 .. s.nthreads :
        chunkFirst(Len(s.boids), s.nthreads, t) <= i /\ i <= chunkLast(Len(s.boids), s.nthreads, t)

\* the threads of the team
Threads(s) == 1 .. s.nthreads

\* step is entered: Grid grid(width, height, 50.0f)
stepBegin(s, predatorPos) ==
    [s EXCEPT !.pc = "add", !.grid = Grid(s.width, s.height, CellSize),
              !.addIdx = 1, !.predatorPos = predatorPos,
              !.updated = [i \in 1 .. Len(s.boids) |-> 0],
              !.wrapped = [i \in 1 .. Len(s.boids) |-> 0],
              !.limited = [i \in 1 .. Len(s.boids) |-> FALSE]]

\* one turn of: for (auto& b : boids) grid.add(&b)
stepAdd(s) ==
    [s EXCEPT !.grid = add(s.grid, s.boids[s.addIdx].pos, s.addIdx),
              !.addIdx = @ + 1]

\* the loop of grid.add has ended
gridBuilt(s) == s.addIdx > Len(s.boids)

\* #pragma omp parallel for schedule(static): the team starts
stepFork(s) ==
    [s EXCEPT !.pc = "parallel",
              !.th = [t \in 1 .. s.nthreads |->
                        LET lo == chunkFirst(Len(s.boids), s.nthreads, t)
                            hi == chunkLast(Len(s.boids), s.nthreads, t)
                        IN  [pc |-> IF lo <= hi THEN "query" ELSE "done",
                             i |-> lo, last |-> hi, neighbors |-> << >>]]]

\* neighbors built one element too long, up to the end of the buffer
neighborsOneMore(buffer, found) ==
    SubSeq(buffer, 1, IF found < Len(buffer) THEN found + 1 ELSE found)

\* std::vector<Boid*> neighbors(neighborBuffer, neighborBuffer + found)
neighbors(buffer, found) == SubSeq(buffer, 1, found)

\* grid.query(...) into the uninitialized neighborBuffer, every slot of which
\* holds the indeterminate value garbage before the call
threadQuery(s, t, garbage) ==
    LET b == s.boids[s.th[t].i]
        q == query(s.grid, b.pos[1], b.pos[2],
                   [k \in 1 .. NeighborBufferSize |-> garbage], NeighborBufferSize)
    IN  [s EXCEPT !.th[t].neighbors = neighbors(q.buffer, q.count),
                  !.th[t].pc = "flock"]

\* b.flock(neighbors, predatorPos), up to its call of wander
threadFlock(s, t) ==
    LET i == s.th[t].i
    IN  [s EXCEPT !.boids[i] = flockNeighbors(s.boids[i], i, s.th[t].neighbors, s.boids),
                  !.th[t].pc = "wander"]

\* b.flock(neighbors, predatorPos), from its call of wander on
threadWander(s, t) ==
    LET i == s.th[t].i
        r == flockWanderFlee(s.boids[i], s.predatorPos, s.seed)
    IN  [s EXCEPT !.boids[i] = r.b, !.seed = r.seed, !.th[t].pc = "update"]

\* b.update()
threadUpdate(s, t) ==
    LET i == s.th[t].i
        b == s.boids[i]
    IN  [s EXCEPT !.boids[i] = update(b),
                  !.updated[i] = @ + 1,
                  !.limited[i] = magSq(VAdd(b.vel, b.accel)) > b.maxSpeed * b.maxSpeed,
                  !.th[t].pc = "wrap"]

\* the boundary wrap without its branch for the lower edge
wrapUpperOnly(p, size) == IF p > size THEN 0 ELSE p

\* the boundary wrap of one coordinate
wrap(p, size) == IF p > size THEN 0 ELSE IF p < 0 THEN size ELSE p

\* the boundary wrap, and the loop's ++i
threadWrap(s, t) ==
    LET i == s.th[t].i
    IN  [s EXCEPT !.boids[i].pos = Vector2D(wrap(@[1], s.width), wrap(@[2], s.height)),
                  !.wrapped[i] = @ + 1,
                  !.th[t].i = @ + 1,
                  !.th[t].neighbors = << >>,
                  !.th[t].pc = IF i < s.th[t].last THEN "query" ELSE "done"]

\* a parallel for that returns as soon as one thread has ended its chunk
joinReadyAny(s) == \E t \in 1 .. s.nthreads : s.th[t].pc = "done"

\* the barrier that ends the parallel for: every thread has ended its chunk
joinReady(s) == \A t \in 1 .. s.nthreads : s.th[t].pc = "done"

\* step returns: its locals are gone
stepJoin(s) ==
    [s EXCEPT !.pc = "idle", !.grid = NoGrid, !.addIdx = 0,
              !.th = [t \in 1 .. s.nthreads |-> IdleThread],
              !.tick = @ + 1]

\* Simulation::remove_boids: the turns of its loop over sorted_indices[k..]
RECURSIVE eraseAll(_, _, _)
eraseAll(boids, sorted, k) ==
    IF k > Len(sorted) THEN boids
    ELSE LET idx == sorted[k]
         IN  IF idx >= 0 /\ idx < Len(boids)
             THEN eraseAll(SubSeq(boids, 1, idx) \o SubSeq(boids, idx + 2, Len(boids)),
                           sorted, k + 1)
             ELSE eraseAll(boids, sorted, k + 1)

\* std::sort(..., std::greater<int>()): insertion of x into a descending sequence
RECURSIVE insertDesc(_, _)
insertDesc(x, sq) ==
    IF sq = << >> THEN <<x>>
    ELSE IF x >= Head(sq) THEN <<x>> \o sq
    ELSE <<Head(sq)>> \o insertDesc(x, Tail(sq))

RECURSIVE sortDesc(_)
sortDesc(sq) == IF sq = << >> THEN << >> ELSE insertDesc(Head(sq), sortDesc(Tail(sq)))

\* Simulation::remove_boids(indices); indices are the 0-based ints of the code
remove_boids(s, indices) ==
    LET kept == eraseAll(s.boids, sortDesc(indices), 1)
    IN  [s EXCEPT !.boids = kept,
                  !.updated = [i \in 1 .. Len(kept) |-> 0],
                  !.wrapped = [i \in 1 .. Len(kept) |-> 0],
                  !.limited = [i \in 1 .. Len(kept) |-> FALSE]]

-----------------------------------------------------------------------------
(* The simulation under its caller: construction, then calls of step, each  *)
(* run by a team of OpenMP threads whose steps interleave.                  *)

\* the sizes of the OpenMP team (OMP_NUM_THREADS)
Teams == {1, 2}

\* the states of rand() at construction that the runs start from
Seeds == {7}

\* the worlds constructed: <<w, h>>
Worlds == {<<4 * Scale, 3 * Scale>>, <<150 * Scale, 100 * Scale>>}

\* the predator positions a caller passes to step: the cursor rests in a
\* corner of the window, chosen before the first call
Predators(s) ==
    IF s.tick = 0 THEN {Vector2D(0, 0), Vector2D(s.width, s.height)}
    ELSE {s.predatorPos}

NoRun == [pc |-> "none"]

NoCall == [op |-> "none"]

Init ==
    /\ \E count \in 1 .. MaxBoids, wh \in Worlds, seed \in Seeds,
          xFirst \in BOOLEAN, nthreads \in Teams :
          sim = Simulation(count, wh[1], wh[2], seed, xFirst, nthreads)
    /\ runB = NoRun
    /\ call = NoCall

(* One step of a run of step: s is the simulation before it, s2 after it. *)

Begin(s, s2, p) == s.pc = "idle" /\ s.tick < MaxTicks /\ s2 = stepBegin(s, p)

AddOne(s, s2) == s.pc = "add" /\ ~gridBuilt(s) /\ s2 = stepAdd(s)

ForkTeam(s, s2) == s.pc = "add" /\ gridBuilt(s) /\ s2 = stepFork(s)

Query(s, s2, t) ==
    /\ s.pc = "parallel"
    /\ s.th[t].pc = "query"
    /\ \E garbage \in 1 .. Len(s.boids) : s2 = threadQuery(s, t, garbage)

Flock(s, s2, t) == s.pc = "parallel" /\ s.th[t].pc = "flock" /\ s2 = threadFlock(s, t)

Wander(s, s2, t) == s.pc = "parallel" /\ s.th[t].pc = "wander" /\ s2 = threadWander(s, t)

Update(s, s2, t) == s.pc = "parallel" /\ s.th[t].pc = "update" /\ s2 = threadUpdate(s, t)

Wrap(s, s2, t) == s.pc = "parallel" /\ s.th[t].pc = "wrap" /\ s2 = threadWrap(s, t)

JoinTeam(s, s2) == s.pc = "parallel" /\ joinReady(s) /\ s2 = stepJoin(s)

StepBegin ==
    /\ \E p \in Predators(sim) : Begin(sim, sim', p)
    /\ UNCHANGED <<runB, call>>

GridAdd == AddOne(sim, sim') /\ UNCHANGED <<runB, call>>

Fork == ForkTeam(sim, sim') /\ UNCHANGED <<runB, call>>

ThreadQuery(t) == Query(sim, sim', t) /\ UNCHANGED <<runB, call>>

ThreadFlock(t) == Flock(sim, sim', t) /\ UNCHANGED <<runB, call>>

ThreadWander(t) == Wander(sim, sim', t) /\ UNCHANGED <<runB, call>>

ThreadUpdate(t) == Update(sim, sim', t) /\ UNCHANGED <<runB, call>>

ThreadWrap(t) == Wrap(sim, sim', t) /\ UNCHANGED <<runB, call>>

Join == JoinTeam(sim, sim') /\ UNCHANGED <<runB, call>>

Next ==
    \/ StepBegin
    \/ GridAdd
    \/ Fork
    \/ \E t \in Threads(sim) : ThreadQuery(t)
    \/ \E t \in Threads(sim) : ThreadFlock(t)
    \/ \E t \in Threads(sim) : ThreadWander(t)
    \/ \E t \in Threads(sim) : ThreadUpdate(t)
    \/ \E t \in Threads(sim) : ThreadWrap(t)
    \/ Join

Spec == Init /\ [][Next]_vars

-----------------------------------------------------------------------------
(* The memory a thread's next step reads and writes.  A location is          *)
(* <<field, i>> for a field of boids[i], <<"rand">> for the state of rand()  *)
(* and <<"grid">> for the buckets of the grid.                               *)

\* what flock reads through the pointers of neighbors (other->pos, other->vel)
NeighborReads(s, t) ==
    IF s.th[t].pc = "flock"
    THEN {<<f, s.th[t].neighbors[k]>> :
             f \in {"pos", "vel"},
             k \in {n \in 1 .. Len(s.th[t].neighbors) : s.th[t].neighbors[n] # s.th[t].i}}
    ELSE {}

Reads(s, t) ==
    LET i == s.th[t].i
    IN  CASE s.th[t].pc = "query"  -> {<<"pos", i>>, <<"grid">>}
          [] s.th[t].pc = "flock"  -> {<<"pos", i>>, <<"vel", i>>} \cup NeighborReads(s, t)
          [] s.th[t].pc = "wander" -> {<<"rand">>, <<"wanderAngle", i>>, <<"vel", i>>,
                                       <<"pos", i>>, <<"accel", i>>}
          [] s.th[t].pc = "update" -> {<<"vel", i>>, <<"accel", i>>, <<"pos", i>>}
          [] s.th[t].pc = "wrap"   -> {<<"pos", i>>}
          [] OTHER -> {}

Writes(s, t) ==
    LET i == s.th[t].i
    IN  CASE s.th[t].pc = "flock"  -> {<<"accel", i>>}
          [] s.th[t].pc = "wander" -> {<<"rand">>, <<"wanderAngle", i>>, <<"accel", i>>}
          [] s.th[t].pc = "update" -> {<<"vel", i>>, <<"pos", i>>, <<"accel", i>>}
          [] s.th[t].pc = "wrap"   ->
               IF threadWrap(s, t).boids[i].pos # s.boids[i].pos THEN {<<"pos", i>>} ELSE {}
          [] OTHER -> {}

-----------------------------------------------------------------------------
(* Claims checked under Spec *)

\* C2: during the parallel phase every thread writes only boids of its own
\* chunk, no bucket of the grid is written, and no position or velocity that
\* one thread reads as a neighbor inside flock is being written by another.
C2_DataRaceFree ==
    sim.pc = "parallel" =>
        \A t \in Threads(sim) :
            /\ \A loc \in Writes(sim, t) :
                   /\ loc # <<"grid">>
                   /\ loc # <<"rand">> => owner(sim, loc[2]) = t
            /\ \A u \in Threads(sim) \ {t} :
                   NeighborReads(sim, t) \cap Writes(sim, u) = {}

\* C9: no two threads access the generator behind rand() at the same time.
C9_RandRaceFree ==
    \A t \in Threads(sim) : \A u \in Threads(sim) \ {t} :
        ~ (<<"rand">> \in Reads(sim, t) \cup Writes(sim, t)
             /\ <<"rand">> \in Reads(sim, u) \cup Writes(sim, u))

\* the rounding error allowed to a speed: 0.03
SpeedTol == (3 * Scale) \div 100

\* C3: every boid's speed is at most maxSpeed, within the rounding error of
\* float, at construction and whenever update has run.
C3_SpeedLimited ==
    \A i \in 1 .. Len(sim.boids) :
        magSq(sim.boids[i].vel)
            <= (sim.boids[i].maxSpeed + SpeedTol) * (sim.boids[i].maxSpeed + SpeedTol)

\* update has run in a second call of step and its limit cut the velocity
C3_Witness ==
    /\ sim.tick >= 1
    /\ \E i \in 1 .. Len(sim.boids) : sim.updated[i] = 1 /\ sim.limited[i]

\* C5 as stated: between calls of step every boid lies in the half-open
\* rectangle [0, width) x [0, height).
C5_InHalfOpenWorld ==
    sim.pc = "idle" =>
        \A i \in 1 .. Len(sim.boids) :
            /\ 0 <= sim.boids[i].pos[1] /\ sim.boids[i].pos[1] < sim.width
            /\ 0 <= sim.boids[i].pos[2] /\ sim.boids[i].pos[2] < sim.height

\* C5 as amended: after construction and after every completed step every
\* boid lies in the closed rectangle [0, width] x [0, height].
C5_InClosedWorld ==
    sim.pc = "idle" =>
        \A i \in 1 .. Len(sim.boids) :
            /\ 0 <= sim.boids[i].pos[1] /\ sim.boids[i].pos[1] <= sim.width
            /\ 0 <= sim.boids[i].pos[2] /\ sim.boids[i].pos[2] <= sim.height

\* a step has returned and left a boid that crossed the lower edge on the
\* upper edge
C5_Witness ==
    /\ sim.pc = "idle"
    /\ sim.tick >= 1
    /\ \E i \in 1 .. Len(sim.boids) :
           /\ sim.wrapped[i] = 1
           /\ sim.boids[i].pos[1] = sim.width \/ sim.boids[i].pos[2] = sim.height

\* how often boid i lies in the buckets of grid g
RECURSIVE countIn(_, _)
countIn(i, sq) ==
    IF sq = << >> THEN 0 ELSE (IF Head(sq) = i THEN 1 ELSE 0) + countIn(i, Tail(sq))

RECURSIVE sumOver(_, _, _)
sumOver(i, g, cellSet) ==
    IF cellSet = {} THEN 0
    ELSE LET c == CHOOSE c \in cellSet : TRUE
         IN  countIn(i, g.cells[c]) + sumOver(i, g, cellSet \ {c})

inGrid(i, g) == sumOver(i, g, DOMAIN g.cells)

\* every grid.add is done before a thread's first query
C6_AddsBeforeQueries ==
    sim.pc = "parallel" => \A i \in 1 .. Len(sim.boids) : inGrid(i, sim.grid) = 1

\* step returns only after every boid was integrated and wrapped exactly once
C6_ReturnsAfterAll ==
    (sim.pc = "idle" /\ sim.tick >= 1) =>
        \A i \in 1 .. Len(sim.boids) : sim.updated[i] = 1 /\ sim.wrapped[i] = 1

\* C6 as stated: the rebuild is done before the first query, every thread has
\* done all its query/flock/update work before any boundary wrap, and step
\* returns only after every boid was integrated and wrapped exactly once.
C6_PhasesOrdered ==
    /\ C6_AddsBeforeQueries
    /\ (\E i \in 1 .. Len(sim.boids) : sim.wrapped[i] >= 1) =>
           \A t \in Threads(sim) : sim.th[t].pc \notin {"query", "flock", "wander", "update"}
    /\ C6_ReturnsAfterAll

\* C6 as amended: the rebuild is done before the first query, each boid's
\* boundary wrap follows that boid's own update inside the parallel loop
\* (other boids may still be waiting for their query, flock and update), no
\* boid is integrated or wrapped twice, and step returns only after every
\* boid was integrated and wrapped exactly once.
C6_PhasesOrderedPerBoid ==
    /\ C6_AddsBeforeQueries
    /\ \A i \in 1 .. Len(sim.boids) :
           sim.wrapped[i] <= sim.updated[i] /\ sim.updated[i] <= 1
    /\ C6_ReturnsAfterAll

\* a step of a team of two has returned, each thread having had boids
C6_Witness ==
    /\ sim.pc = "idle"
    /\ sim.tick >= 1
    /\ sim.nthreads >= 2
    /\ Len(sim.boids) >= 2

-----------------------------------------------------------------------------
(* Two runs of the same simulation with a single thread: sim and runB start *)
(* from one constructed state and are passed the same predator position     *)
(* (call.predatorPos) by their callers.  The runs share nothing, so the     *)
(* order of their steps is immaterial: the first run makes a call of step,  *)
(* then the second run makes the same call.                                 *)

\* the largest population of the two runs
MaxBoidsDet == 3

InitDet ==
    /\ \E count \in 1 .. MaxBoidsDet, wh \in Worlds, seed \in Seeds, xFirst \in BOOLEAN :
          sim = Simulation(count, wh[1], wh[2], seed, xFirst, 1)
    /\ runB = sim
    /\ \E p \in Predators(sim) : call = [op |-> "step", predatorPos |-> p]

RunStep(s, s2) ==
    \/ Begin(s, s2, call.predatorPos)
    \/ AddOne(s, s2)
    \/ ForkTeam(s, s2)
    \/ Query(s, s2, 1)
    \/ Flock(s, s2, 1)
    \/ Wander(s, s2, 1)
    \/ Update(s, s2, 1)
    \/ Wrap(s, s2, 1)
    \/ JoinTeam(s, s2)

\* the first run has returned from a call of step the second has yet to make
SecondToMove == sim.pc = "idle" /\ runB.tick < sim.tick

FirstRun == ~SecondToMove /\ RunStep(sim, sim') /\ UNCHANGED <<runB, call>>

SecondRun == SecondToMove /\ RunStep(runB, runB') /\ UNCHANGED <<sim, call>>

NextDet == FirstRun \/ SecondRun

SpecDet == InitDet /\ [][NextDet]_vars

\* C7: with a single thread, two runs from the same initial state that were
\* passed the same predator positions hold the same boids, and the same state
\* of rand(), after every equal number of completed steps.
C7_Deterministic ==
    (sim.pc = "idle" /\ runB.pc = "idle" /\ sim.tick = runB.tick) =>
        sim.boids = runB.boids /\ sim.seed = runB.seed

\* both runs have completed every step, with boids that were neighbors
C7_Witness ==
    /\ sim.pc = "idle" /\ runB.pc = "idle"
    /\ sim.tick = MaxTicks /\ runB.tick = MaxTicks
    /\ Len(sim.boids) >= 2
    /\ \A i \in 1 .. Len(sim.boids) : sim.updated[i] = 1 /\ runB.updated[i] = 1

-----------------------------------------------------------------------------
(* Simulation::remove_boids under its caller *)

\* the longest index sequence passed to remove_boids
MaxIndices == 2

\* the sequences over S of length at most n
RECURSIVE SeqsUpTo(_, _)
SeqsUpTo(S, n) ==
    IF n = 0 THEN {<< >>}
    ELSE LET shorter == SeqsUpTo(S, n - 1)
         IN  shorter \cup {Append(q, x) : q \in shorter, x \in S}

InitRemove ==
    /\ \E count \in 1 .. MaxBoids + 1, wh \in Worlds, seed \in Seeds, xFirst \in BOOLEAN :
          sim = Simulation(count, wh[1], wh[2], seed, xFirst, 1)
    /\ runB = NoRun
    /\ call = NoCall

\* a call of remove_boids with indices in range and out of range; call keeps
\* the argument and the population before the call
RemoveBoids ==
    /\ sim.pc = "idle"
    /\ sim.boids # << >>
    /\ \E indices \in SeqsUpTo(-1 .. Len(sim.boids), MaxIndices) :
          /\ sim' = remove_boids(sim, indices)
          /\ call' = [op |-> "remove_boids", indices |-> indices, before |-> sim.boids]
    /\ UNCHANGED runB

NextRemove == RemoveBoids

SpecRemove == InitRemove /\ [][NextRemove]_vars

\* the boids of before whose 0-based index does not occur in indices, in order
RECURSIVE keptOf(_, _, _)
keptOf(before, indices, k) ==
    IF k > Len(before) THEN << >>
    ELSE (IF \E n \in 1 .. Len(indices) : indices[n] = k - 1 THEN << >> ELSE <<before[k]>>)
           \o keptOf(before, indices, k + 1)

\* C1: after remove_boids(indices) the population is exactly the boids whose
\* original index does not occur in indices, in their original order, whatever
\* the order of the indices, repeated or out of range.
C1_RemovesExactlyIndexed ==
    call.op = "remove_boids" => sim.boids = keptOf(call.before, call.indices, 1)

-----------------------------------------------------------------------------
(* Grid::add and Grid::query on their own: a grid being rebuilt from boids  *)
(* that have moved to positions anywhere in the world, then queried at any  *)
(* point of the world.                                                      *)

\* s with its boids moved to the positions given
place(s, positions) ==
    [s EXCEPT !.boids = [i \in 1 .. Len(s.boids) |-> [s.boids[i] EXCEPT !.pos = positions[i]]]]

\* coordinates along an axis of length size: at and near both edges
Coordinates(size) ==
    {c \in {0, 5 * Scale, size - 30 * Scale, size - 5 * Scale, size} : 0 <= c /\ c <= size}

\* positions of the world of s
Points(s) == Coordinates(s.width) \X {0, s.height - 5 * Scale}

\* the worlds the grid is built for: fewer than three columns or rows, sizes
\* that are and are not multiples of the cell size
GridWorlds ==
    {60 * Scale, 150 * Scale, 170 * Scale, 200 * Scale} \X {50 * Scale, 150 * Scale}

InitGrid ==
    /\ \E count \in 1 .. MaxBoids, wh \in GridWorlds, seed \in Seeds :
          LET s == Simulation(count, wh[1], wh[2], seed, TRUE, 1)
          IN  \E positions \in [1 .. count -> Points(s)] :
                  sim = stepBegin(place(s, positions), Vector2D(0, 0))
    /\ runB = NoRun
    /\ call = NoCall

\* grid.query at a point of the world, into a fresh buffer; call keeps the
\* point and what query returned
GridQuery ==
    /\ sim.pc = "add"
    /\ gridBuilt(sim)
    /\ call.op = "none"
    /\ \E pt \in Points(sim), garbage \in 1 .. Len(sim.boids) :
          LET q == query(sim.grid, pt[1], pt[2],
                         [k \in 1 .. NeighborBufferSize |-> garbage], NeighborBufferSize)
          IN  call' = [op |-> "query", point |-> pt, maxCount |-> NeighborBufferSize,
                       found |-> neighbors(q.buffer, q.count)]
    /\ UNCHANGED <<sim, runB>>

NextGrid == GridAdd \/ GridQuery

SpecGrid == InitGrid /\ [][NextGrid]_vars

\* the distance along one axis of a torus of length size
torusAxis(a, b, size) ==
    LET d == Abs(a - b) IN IF size - d < d THEN size - d ELSE d

\* the squared distance of p and q on the torus of the world of s
torusDistSq(s, p, q) ==
    torusAxis(p[1], q[1], s.width) * torusAxis(p[1], q[1], s.width)
      + torusAxis(p[2], q[2], s.height) * torusAxis(p[2], q[2], s.height)

\* C4: when the visited buckets hold at most maxResults agents, query returns
\* every agent whose toroidal distance from the point is less than cellSize.
C4_QuerySuperset ==
    (call.op = "query" /\ Len(sim.boids) <= call.maxCount) =>
        \A i \in 1 .. Len(sim.boids) :
            torusDistSq(sim, call.point, sim.boids[i].pos) < CellSize * CellSize
                => \E k \in 1 .. Len(call.found) : call.found[k] = i

\* C10: with each agent added once, one query returns each agent at most once,
\* whatever the size of the grid.
C10_QueryNoDuplicates ==
    call.op = "query" =>
        \A k \in 1 .. Len(call.found) : \A n \in 1 .. Len(call.found) :
            call.found[k] = call.found[n] => k = n

-----------------------------------------------------------------------------
(* Boid::wrappedDiff between two boids of a simulation *)

\* the worlds constructed for wrappedDiff: <<w, h>>
DiffWorlds ==
    {<<800 * Scale, 600 * Scale>>, <<1200 * Scale, 800 * Scale>>,
     <<2000 * Scale, 1000 * Scale>>, <<3000 * Scale, 2000 * Scale>>}

\* positions of the world of s: the corners, the centre and the points about
\* 500 from them along each axis
DiffPoints(s) ==
    {c \in {0, 500 * Scale, s.width \div 2, s.width - Scale} : c < s.width}
      \X {c \in {0, 500 * Scale, s.height \div 2, s.height - Scale} : c < s.height}

InitDiff ==
    /\ \E wh \in DiffWorlds, seed \in Seeds :
          LET s == Simulation(2, wh[1], wh[2], seed, TRUE, 1)
          IN  \E positions \in [1 .. 2 -> DiffPoints(s)] : sim = place(s, positions)
    /\ runB = NoRun
    /\ call = NoCall

\* boid i computes wrappedDiff(pos, other->pos) as flock does; call keeps the
\* result
WrappedDiff ==
    /\ call.op = "none"
    /\ \E i \in 1 .. Len(sim.boids), j \in 1 .. Len(sim.boids) :
          /\ i # j
          /\ call' = [op |-> "wrappedDiff", this |-> i, other |-> j,
                      diff |-> wrappedDiff(sim.boids[i], sim.boids[i].pos, sim.boids[j].pos)]
    /\ UNCHANGED <<sim, runB>>

NextDiff == WrappedDiff

SpecDiff == InitDiff /\ [][NextDiff]_vars

\* C8: in a simulation of any width and height, wrappedDiff of two positions
\* of the world is at most half the width along x and half the height along
\* y, hence no longer than half the diagonal of the world.
C8_WrappedDiffShortest ==
    call.op = "wrappedDiff" =>
        /\ 2 * Abs(call.diff[1]) <= sim.width
        /\ 2 * Abs(call.diff[2]) <= sim.height
        /\ 4 * ((call.diff[1] \div Scale) * (call.diff[1] \div Scale)
                  + (call.diff[2] \div Scale) * (call.diff[2] \div Scale))
             <= (sim.width \div Scale) * (sim.width \div Scale)
                  + (sim.height \div Scale) * (sim.height \div Scale)

==========================================================================
